---- MODULE Spec2Model ----
(***************************************************************************)
(* State-machine model of the phrase enrichment pipeline of                *)
(* words-on-phone: the five ranking scripts                                *)
(*   safe         safe_pageviews_ranking.py                                *)
(*   interactive  interactive_pageviews_ranking.py                         *)
(*   sample       sample_pageviews_ranking.py                              *)
(*   pageviews    rank_phrases_by_pageviews.py                             *)
(*   prominence   rank_phrases_by_prominence.py                            *)
(* Every script loads the dataset file, drives the pending records through *)
(* a search request and a pageviews request, writes the outcome into the   *)
(* record's "prominence", sorts and saves.  Python objects are modelled by *)
(* identity: heap is the object store, items/work are lists of references. *)
(*                                                                         *)
(* Python >= 3.8 is assumed: asyncio.CancelledError is a BaseException and *)
(* is not caught by "except Exception".                                    *)
(***************************************************************************)
EXTENDS Integers, Sequences, FiniteSets, TLC

(* -------- bounds of the model ------------------------------------------ *)
\* longest dataset file that is enumerated
MaxRecords == 3

(* -------- program constants -------------------------------------------- *)
\* Semaphore(2): the permits of the concurrency gate
K == 2
\* BATCH_SIZE of safe_pageviews_ranking.py (100 in the source, scaled down)
BATCH_SIZE == 2
\* BATCH_TIMEOUT and REQUEST_TIMEOUT are wall-clock ceilings; their expiry is
\* an event of the environment (BatchTimeout, the "timeout" responses).

(* -------- values ------------------------------------------------------- *)
Phrases == {"A", "B", "C"}

NoHits == -1
NoOid == <<"none", 0>>

\* A prominence dict.  article = "" and search_hits = NoHits stand for an
\* absent key; oid is the identity of the dict object (not part of its value).
Prom(score, method, article, hits, oid) ==
    [score |-> score, method |-> method, article |-> article,
     search_hits |-> hits, oid |-> oid]

\* Record without a "prominence" key.
NoProm == Prom(0, "absent", "", NoHits, NoOid)

\* The value of a prominence dict: what == and json.dumps see.
PVal(p) == [p EXCEPT !.oid = NoOid]

\* The value of a record.
Val(r) == [r EXCEPT !.prom = PVal(r.prom)]

\* Python dict equality of two records.
RecEq(a, b) == Val(a) = Val(b)

\* item.get("prominence", {}).get("method")
Method(r) == r.prom.method

\* o.get("prominence", {}).get("score", 0)
Score(r) == r.prom.score

\* The prominences a loaded record may carry.
Absent == NoProm
TotalHits == Prom(7, "wiki_totalhits", "", NoHits, NoOid)
PageViews == Prom(5000, "wiki_pageviews", "A", NoHits, NoOid)

Rec(phrase, prom) == [phrase |-> phrase, prom |-> prom, extra |-> 0]

\* The record values of the dataset files a script is run on.  interactive
\* and sample take the wiki_totalhits records as pending, safe every record
\* without wiki_pageviews; the two rank scripts score every record and
\* overwrite whatever prominence it carried.
RecordValues(s) ==
    CASE s \in {"interactive", "sample"} ->
           { Rec("A", TotalHits), Rec("B", TotalHits), Rec("C", TotalHits),
             Rec("A", PageViews), Rec("B", Absent) }
      [] s = "safe" ->
           { Rec("A", Absent), Rec("B", TotalHits), Rec("A", PageViews) }
      [] OTHER ->
           { Rec("A", Absent), Rec("B", TotalHits) }

\* The dataset files: every sequence of at most MaxRecords records.  extra is
\* the opaque pass-through payload; it alternates with the position, so that
\* both equal and unequal duplicate records occur.
Datasets(s) ==
    UNION { { [i \in 1..n |-> [f[i] EXCEPT !.extra = i % 2]] :
                f \in [1..n -> RecordValues(s)] } : n \in 0..MaxRecords }

\* PHRASES_PATH does not exist.  No dataset equals this value: a phrase is
\* never empty.
NoFile == <<[phrase |-> "", prom |-> NoProm, extra |-> -1]>>

\* The view count the statistics API reports for an article.
Views(title) == IF title = "A" THEN 5000 ELSE 0

\* The first title the search API lists for a phrase when it has results.
Article(phrase) == phrase

\* Responses of the search API: 200 with results, 200 with an empty list,
\* 429, another status, the per-request timeout, a transport failure.
SearchResponses == {"found", "empty", "s429", "s500", "timeout", "fail"}

\* Responses of the pageviews API.
PvResponses == {"ok", "s404", "s429", "s500", "timeout", "fail"}

Scripts == {"safe", "interactive", "sample", "pageviews", "prominence"}

(* -------- state -------------------------------------------------------- *)
VARIABLES
    script,      \* the script that runs
    pc,          \* position of main()
    file,        \* content of PHRASES_PATH (NoFile when it does not exist)
    backups,     \* backup files written in this run: <<suffix, content>>
    checkpoints, \* progress files written in this run: <<batch_num, content>>
    net,         \* TRUE once a network request has been issued
    heap,        \* object store: sequence of records, an object is its index
    items,       \* the list "items": sequence of object references
    work,        \* the list handed to the scheduler: sequence of references
    processed,   \* interactive: processed_phrases, phrase -> prominence
    batchNo,     \* batch_num of the batch in progress
    task,        \* per work item: the state of its task / coroutine
    sem,         \* free permits of the semaphore
    call         \* a call of a helper function looked at on its own (NoCall
                 \* while a script runs): its arguments, position and result

vars == <<script, pc, file, backups, checkpoints, net, heap, items, work,
          processed, batchNo, task, sem, call>>

\* A task (a coroutine of one work item): its position, the article title it
\* resolved ("" = None), the totalhits it read and the index of the search
\* strategy it is at (the last two are used by the rank scripts only).
RankTask(p, t, h, k) == [pc |-> p, title |-> t, hits |-> h, strat |-> k]
Task(p, t) == RankTask(p, t, 0, 0)
NewTask == Task("new", "")
GoneTask == Task("gone", "")

(* -------- helpers ------------------------------------------------------ *)
RECURSIVE SelectIdx(_, _, _)
\* [x for x in seq if P(x)] over positions i..Len(seq)
SelectIdx(seq, P(_), i) ==
    IF i > Len(seq) THEN <<>>
    ELSE IF P(seq[i]) THEN <<seq[i]>> \o SelectIdx(seq, P, i + 1)
    ELSE SelectIdx(seq, P, i + 1)

Filter(seq, P(_)) == SelectIdx(seq, P, 1)

Min(a, b) == IF a < b THEN a ELSE b

\* PHRASES_PATH.read_text() + json.loads: fresh objects 1..n, each with its
\* own prominence dict.
Load(content) ==
    [i \in 1..Len(content) |->
        [content[i] EXCEPT !.prom =
            IF content[i].prom.method = "absent" THEN NoProm
            ELSE [content[i].prom EXCEPT !.oid = <<"load", i>>]]]

\* json.dumps(items): the values of the referenced objects, in list order.
Dump(h, its) == [i \in 1..Len(its) |-> Val(h[its[i]])]

RECURSIVE InsertDescBeforeTies(_, _, _)
\* An insertion that puts x in front of the elements of equal score, as a
\* sort that reverses an ascending sort does.
InsertDescBeforeTies(h, sorted, x) ==
    IF sorted = <<>> THEN <<x>>
    ELSE IF Score(h[Head(sorted)]) > Score(h[x])
         THEN <<Head(sorted)>> \o InsertDescBeforeTies(h, Tail(sorted), x)
         ELSE <<x>> \o sorted

RECURSIVE InsertDesc(_, _, _)
\* Insert x behind every element whose score is >= Score(x).
InsertDesc(h, sorted, x) ==
    IF sorted = <<>> THEN <<x>>
    ELSE IF Score(h[Head(sorted)]) >= Score(h[x])
         THEN <<Head(sorted)>> \o InsertDesc(h, Tail(sorted), x)
         ELSE <<x>> \o sorted

RECURSIVE SortPrefix(_, _, _)
SortPrefix(h, its, n) ==
    IF n = 0 THEN <<>> ELSE InsertDesc(h, SortPrefix(h, its, n - 1), its[n])

\* items.sort(key=score, reverse=True): stable, descending.
SortDesc(h, its) == SortPrefix(h, its, Len(its))

\* A slicing that lets consecutive batches overlap by one item, as
\* needs_processing[i:i + bs + 1] would.
BatchOfOverlapping(b, bs) ==
    { w \in 1..Len(work) : (b - 1) * bs < w /\ w <= b * bs + 1 }

\* Work indices of batch b for batch size bs: needs_processing[i:i + bs].
BatchOf(b, bs) == { w \in 1..Len(work) : (b - 1) * bs < w /\ w <= b * bs }

\* total_batches = (len + bs - 1) // bs
TotalBatches(n, bs) == (n + bs - 1) \div bs

\* The positions of a task inside "async with sem" / "async with SEM".
GatePcs == {"sleep1", "search1", "search2", "backoff", "sleep2", "pv", "backoff2"}

\* The tasks that hold a permit (interactive has no gate: it runs the items
\* of a batch one after the other).
Holders ==
    IF script = "interactive" THEN {}
    ELSE { w \in DOMAIN task : task[w].pc \in GatePcs }

\* "async with sem" at a gate with s free permits as a broken gate would
\* admit: always.
GateAlwaysFree(s) == TRUE

\* "async with sem": Semaphore.acquire() lets the task in only while a permit
\* is free; otherwise the task stays queued.
GateFree(s) == s > 0

\* phrase_obj["prominence"] = p on the object behind work item w.
SetProm(h, w, p) == [h EXCEPT ![work[w]].prom = p]

\* A save that is not preceded by the backup copy.
WriteNoBackup(bs, suffix, content) == bs

\* backup_path.write_text(PHRASES_PATH.read_text()): the backup files after
\* the content of the primary file has been copied to the sibling named by
\* suffix.
WriteBackup(bs, suffix, content) == bs \cup {<<suffix, content>>}

\* A progress save that goes to the primary path as well.
PrimaryOverwritten(f, snapshot, due) == IF due THEN snapshot ELSE f

\* progress_path.write_text(...): the progress file is a sibling of the
\* primary file, whose content stays what it was (due: the batch is one
\* after which a progress file is written).
PrimaryAfterCheckpoint(f, snapshot, due) == f

(* -------- initial state ------------------------------------------------ *)
\* No helper function is looked at on its own.
NoCall == [fn |-> "none"]

\* Nothing has been loaded, written or requested yet.
InitRest ==
    /\ pc = "start"
    /\ backups = {}
    /\ checkpoints = {}
    /\ net = FALSE
    /\ heap = <<>>
    /\ items = <<>>
    /\ work = <<>>
    /\ processed = <<>>
    /\ batchNo = 0
    /\ task = <<>>
    /\ sem = K
    /\ call = NoCall

\* The script is started on one of its dataset files, or without a file.
InitCommon == file \in Datasets(script) \cup {NoFile} /\ InitRest


(* ======================================================================= *)
(* safe_pageviews_ranking.py                                               *)
(* ======================================================================= *)
\* The answers an operator may type at input("Continue? (y/n): ").
Answers == {"y", "Y", "n", ""}

\* str.lower() on the answers.
Lower(s) == IF s = "Y" THEN "y" ELSE s

\* A worklist that takes every record, as a comprehension without its
\* condition would.
NeedsEverything(h, its) == its

\* needs_processing: the records whose method is not wiki_pageviews (a
\* record without a prominence included).
NeedsProcessing(h, its) ==
    Filter(its, LAMBDA o : Method(h[o]) # "wiki_pageviews")

\* main(), up to the confirmation prompt: connection test, existence check,
\* load, needs_processing.
StartSafe ==
    /\ script = "safe" /\ pc = "start"
    /\ net' = TRUE
    /\ \E connected \in BOOLEAN :
         IF ~connected
         THEN pc' = "no_connection" /\ UNCHANGED <<heap, items, work, task>>
         ELSE IF file = NoFile
         THEN pc' = "not_found" /\ UNCHANGED <<heap, items, work, task>>
         ELSE LET h == Load(file)
                  its == [i \in 1..Len(file) |-> i]
                  needs_processing == NeedsProcessing(h, its)
              IN /\ heap' = h
                 /\ items' = its
                 /\ work' = needs_processing
                 /\ task' = [w \in 1..Len(needs_processing) |-> NewTask]
                 /\ pc' = IF Len(needs_processing) = 0 THEN "nothing_to_do"
                          ELSE "confirm"
    /\ UNCHANGED <<script, call, file, backups, checkpoints, processed, batchNo, sem>>

\* A test that takes only the answer "n" for a refusal, as
\* "if response == 'n'" would.
DeclinedOnlyN(response) == response = "n"

\* "if response.lower() != 'y'": the operator has not affirmed.
Declined(response) == Lower(response) # "y"

\* main(): the confirmation prompt, answered with response.
ConfirmSafeOn(response) ==
    /\ script = "safe" /\ pc = "confirm"
    /\   IF Declined(response)
         THEN pc' = "cancelled" /\ UNCHANGED batchNo
         ELSE pc' = "loop" /\ batchNo' = 1
    /\ UNCHANGED <<script, call, file, backups, checkpoints, net, heap, items, work,
                   processed, task, sem>>

\* main(): the operator answers the prompt.
ConfirmSafe == \E response \in Answers : ConfirmSafeOn(response)

\* process_batch + process_batch_items: the session is opened, a fresh
\* Semaphore(2) is made and gather() creates one task per batch item.
StartBatchSafe ==
    /\ script = "safe" /\ pc = "loop"
    /\ batchNo <= TotalBatches(Len(work), BATCH_SIZE)
    /\ task' = [w \in DOMAIN task |->
                  IF w \in BatchOf(batchNo, BATCH_SIZE) THEN Task("wait", "")
                  ELSE task[w]]
    /\ sem' = K
    /\ pc' = "batch"
    /\ UNCHANGED <<script, call, file, backups, checkpoints, net, heap, items, work,
                   processed, batchNo>>

\* process_batch, "except Exception": an exception leaves the session block.
\* No request of an item can raise it (find_wikipedia_article and
\* get_pageviews_safe catch Exception), so it is raised while the session is
\* set up, before any task of the batch has run.
BatchErrorSafe ==
    /\ script = "safe" /\ pc = "loop"
    /\ batchNo <= TotalBatches(Len(work), BATCH_SIZE)
    /\ heap' = [o \in DOMAIN heap |->
                  IF \E w \in BatchOf(batchNo, BATCH_SIZE) : work[w] = o
                  THEN [heap[o] EXCEPT !.prom =
                           Prom(0, "batch_error", "", NoHits, <<"batch_error", o>>)]
                  ELSE heap[o]]
    /\ pc' = "apply"
    /\ UNCHANGED <<script, call, file, backups, checkpoints, net, items, work,
                   processed, batchNo, task, sem>>

\* process_one: "async with sem" entered.
AcquireSafe(w) ==
    /\ script = "safe" /\ pc = "batch"
    /\ task[w].pc = "wait"
    /\ GateFree(sem)
    /\ sem' = sem - 1
    /\ task' = [task EXCEPT ![w].pc = "sleep1"]
    /\ UNCHANGED <<script, call, pc, file, backups, checkpoints, net, heap, items,
                   work, processed, batchNo>>

\* process_one: sleep(0.3) is over, find_wikipedia_article sends the exact
\* phrase search.
PaceSearchSafe(w) ==
    /\ script = "safe" /\ pc = "batch"
    /\ task[w].pc = "sleep1"
    /\ task' = [task EXCEPT ![w].pc = "search1"]
    /\ net' = TRUE
    /\ UNCHANGED <<script, call, pc, file, backups, checkpoints, heap, items, work,
                   processed, batchNo, sem>>

\* A process_one that returns on a missing article without assigning
\* phrase_obj["prominence"].
NoArticleSafeDropped(w) ==
    /\ heap' = heap
    /\ task' = [task EXCEPT ![w] = Task("done", "")]
    /\ sem' = sem + 1

\* The outcome process_one writes when find_wikipedia_article returned None;
\* the permit is released on leaving "async with sem".
NoArticleSafe(w) ==
    /\ heap' = SetProm(heap, w,
                  Prom(0, "no_wikipedia_article", "", NoHits, <<"task", work[w]>>))
    /\ task' = [task EXCEPT ![w] = Task("done", "")]
    /\ sem' = sem + 1

\* find_wikipedia_article: the response to the exact phrase search.
SearchExactSafeOn(w, r) ==
    /\ script = "safe" /\ pc = "batch"
    /\ task[w].pc = "search1"
    /\   CASE r = "found" ->
                /\ task' = [task EXCEPT ![w] =
                              Task("sleep2", Article(heap[work[w]].phrase))]
                /\ UNCHANGED <<heap, sem>>
           [] r \in {"empty", "s429", "s500"} ->
                \* falls through to the broader search, sent at once
                /\ task' = [task EXCEPT ![w].pc = "search2"]
                /\ UNCHANGED <<heap, sem>>
           [] r \in {"timeout", "fail"} ->
                \* except Exception: return None
                NoArticleSafe(w)
    /\ UNCHANGED <<script, call, pc, file, backups, checkpoints, net, items, work,
                   processed, batchNo>>

\* The exact phrase search of item w is answered.
SearchExactSafe(w) == \E r \in SearchResponses : SearchExactSafeOn(w, r)

\* find_wikipedia_article: the response to the broader search.
SearchBroadSafeOn(w, r) ==
    /\ script = "safe" /\ pc = "batch"
    /\ task[w].pc = "search2"
    /\   IF r = "found"
         THEN /\ task' = [task EXCEPT ![w] =
                            Task("sleep2", Article(heap[work[w]].phrase))]
              /\ UNCHANGED <<heap, sem>>
         ELSE NoArticleSafe(w)
    /\ UNCHANGED <<script, call, pc, file, backups, checkpoints, net, items, work,
                   processed, batchNo>>

\* The broader search of item w is answered.
SearchBroadSafe(w) == \E r \in SearchResponses : SearchBroadSafeOn(w, r)

\* process_one: the second sleep(0.3) is over, get_pageviews_safe sends the
\* pageviews request.
PacePvSafe(w) ==
    /\ script = "safe" /\ pc = "batch"
    /\ task[w].pc = "sleep2"
    /\ task' = [task EXCEPT ![w].pc = "pv"]
    /\ UNCHANGED <<script, call, pc, file, backups, checkpoints, net, heap, items,
                   work, processed, batchNo, sem>>

\* An api_error answer reported for a 404 as well, as a get_pageviews_safe
\* without its "elif response.status == 404" branch would.
PvOutcomeSafeNo404(title, r) ==
    CASE r = "ok" -> <<Views(title), "wiki_pageviews">>
      [] r \in {"s404", "s429", "s500"} -> <<0, "api_error">>
      [] r = "timeout" -> <<0, "timeout">>
      [] r = "fail" -> <<0, "error">>

\* get_pageviews_safe: (score, method) for a response.
PvOutcomeSafe(title, r) ==
    CASE r = "ok" -> <<Views(title), "wiki_pageviews">>
      [] r = "s404" -> <<0, "wiki_pageviews_notfound">>
      [] r \in {"s429", "s500"} -> <<0, "api_error">>
      [] r = "timeout" -> <<0, "timeout">>
      [] r = "fail" -> <<0, "error">>

\* get_pageviews_safe returns for the response r and process_one writes the
\* prominence.
PvSafeOn(w, r) ==
    /\ script = "safe" /\ pc = "batch"
    /\ task[w].pc = "pv"
    /\ LET out == PvOutcomeSafe(task[w].title, r)
       IN heap' = SetProm(heap, w,
                     Prom(out[1], out[2], task[w].title, NoHits,
                          <<"task", work[w]>>))
    /\ task' = [task EXCEPT ![w] = Task("done", "")]
    /\ sem' = sem + 1
    /\ UNCHANGED <<script, call, pc, file, backups, checkpoints, net, items, work,
                   processed, batchNo>>

\* The pageviews request of item w is answered.
PvSafe(w) == \E r \in PvResponses : PvSafeOn(w, r)

\* A batch-timeout handler that labels the items with the per-request
\* method "timeout" instead of "batch_timeout".
BatchTimeoutPromAsTimeout(o) == Prom(0, "timeout", "", NoHits, <<"batch_timeout", o>>)

\* The prominence the batch-timeout handler writes.
BatchTimeoutProm(o) == Prom(0, "batch_timeout", "", NoHits, <<"batch_timeout", o>>)

\* The objects the batch-timeout handler overwrites: "for phrase_obj in
\* phrases_batch".
TimeoutTargets(b) == { work[w] : w \in BatchOf(b, BATCH_SIZE) }

\* A gate section that keeps its permit when its task is cancelled, as an
\* acquire() without "async with" (or try/finally) around the section would.
KeptByCancel(holders) == 0

\* The permits that come back when the tasks "holders" are cancelled inside
\* "async with sem": __aexit__ runs for CancelledError too, one release each.
ReleasedByCancel(holders) == Cardinality(holders)

\* A wait_for() that raises TimeoutError and leaves the tasks of the batch
\* running, as one that does not cancel its awaitable would.
CancelIgnored(t) == t

\* task.cancel() on the task t of a gather() that wait_for() cancels: a
\* finished task is left alone, an unfinished one gets CancelledError at the
\* await it is suspended at and ends there (no handler of process_one,
\* find_wikipedia_article or get_pageviews_safe catches it).
CancelTask(t) == IF t.pc = "done" THEN t ELSE Task("cancelled", "")

\* process_batch, "except asyncio.TimeoutError": wait_for cancels gather(),
\* every unfinished task is cancelled (leaving "async with sem" releases its
\* permit), then the handler marks the batch.
BatchTimeoutSafe ==
    /\ script = "safe" /\ pc = "batch"
    /\ \E w \in BatchOf(batchNo, BATCH_SIZE) : task[w].pc # "done"
    /\ task' = [w \in DOMAIN task |->
                  IF w \in BatchOf(batchNo, BATCH_SIZE)
                  THEN CancelTask(task[w]) ELSE task[w]]
    /\ sem' = sem + ReleasedByCancel(Holders)
    /\ heap' = [o \in DOMAIN heap |->
                  IF o \in TimeoutTargets(batchNo)
                  THEN [heap[o] EXCEPT !.prom = BatchTimeoutProm(o)]
                  ELSE heap[o]]
    /\ pc' = "apply"
    /\ UNCHANGED <<script, call, file, backups, checkpoints, net, items, work,
                   processed, batchNo>>

\* gather() returns: every task of the batch has finished.
GatherDoneSafe ==
    /\ script = "safe" /\ pc = "batch"
    /\ \A w \in BatchOf(batchNo, BATCH_SIZE) : task[w].pc = "done"
    /\ pc' = "apply"
    /\ UNCHANGED <<script, call, file, backups, checkpoints, net, heap, items, work,
                   processed, batchNo, task, sem>>

\* items.index(x): the first position holding an object equal to x.
IndexOf(h, its, x) ==
    CHOOSE k \in 1..Len(its) :
        /\ RecEq(h[its[k]], h[x])
        /\ \A m \in 1..(k - 1) : ~RecEq(h[its[m]], h[x])

\* A merge that adds the processed items at the end of the list instead of
\* putting them in their places, as "items.append(processed_item)" would.
AppendItems(h, its, batch, j) == its \o SubSeq(batch, j, Len(batch))

RECURSIVE UpdateItems(_, _, _, _)
\* for j, processed_item in enumerate(processed_batch):
\*     items[items.index(batch[j])] = processed_item
UpdateItems(h, its, batch, j) ==
    IF j > Len(batch) THEN its
    ELSE UpdateItems(h, [its EXCEPT ![IndexOf(h, its, batch[j])] = batch[j]],
                     batch, j + 1)

\* "batch_num % 5 == 0": the cadence of the progress files (5 in the source,
\* scaled down).
CHECKPOINT_EVERY == 2

\* main(): the loop body after process_batch returned: the results are put
\* back into items and the progress file is written.
ApplySafe ==
    /\ script = "safe" /\ pc = "apply"
    /\ LET batch == SubSeq(work, (batchNo - 1) * BATCH_SIZE + 1,
                           Min(batchNo * BATCH_SIZE, Len(work)))
           its == UpdateItems(heap, items, batch, 1)
       IN /\ items' = its
          /\ checkpoints' =
               IF batchNo % CHECKPOINT_EVERY = 0
                  \/ batchNo = TotalBatches(Len(work), BATCH_SIZE)
               THEN checkpoints \cup {<<batchNo, Dump(heap, its)>>}
               ELSE checkpoints
          /\ file' = PrimaryAfterCheckpoint(file, Dump(heap, its),
                        batchNo % CHECKPOINT_EVERY = 0
                        \/ batchNo = TotalBatches(Len(work), BATCH_SIZE))
    /\ task' = [w \in DOMAIN task |->
                  IF w \in BatchOf(batchNo, BATCH_SIZE) THEN GoneTask ELSE task[w]]
    /\ batchNo' = batchNo + 1
    /\ pc' = "loop"
    /\ UNCHANGED <<script, call, backups, net, heap, work, processed, sem>>

\* main(): final sort, backup of the file on disk, save.
FinishSafe ==
    /\ script = "safe" /\ pc = "loop"
    /\ batchNo > TotalBatches(Len(work), BATCH_SIZE)
    /\ LET its == SortDesc(heap, items)
       IN /\ items' = its
          /\ backups' = WriteBackup(backups, ".final-backup.json", file)
          /\ file' = Dump(heap, its)
    /\ pc' = "done"
    /\ UNCHANGED <<script, call, checkpoints, net, heap, work, processed, batchNo,
                   task, sem>>

NextSafe ==
    \/ StartSafe
    \/ ConfirmSafe
    \/ StartBatchSafe
    \/ BatchErrorSafe
    \/ \E w \in DOMAIN task : AcquireSafe(w)
    \/ \E w \in DOMAIN task : PaceSearchSafe(w)
    \/ \E w \in DOMAIN task : SearchExactSafe(w)
    \/ \E w \in DOMAIN task : SearchBroadSafe(w)
    \/ \E w \in DOMAIN task : PacePvSafe(w)
    \/ \E w \in DOMAIN task : PvSafe(w)
    \/ BatchTimeoutSafe
    \/ GatherDoneSafe
    \/ ApplySafe
    \/ FinishSafe

InitSafe == script = "safe" /\ InitCommon

SpecSafe == InitSafe /\ [][NextSafe]_vars

(* ======================================================================= *)
(* interactive_pageviews_ranking.py                                        *)
(* ======================================================================= *)
\* BATCH_SIZE of interactive_pageviews_ranking.py (50 in the source, scaled
\* down).
BATCH_SIZE_INTERACTIVE == 2

\* needs_processing_items: the records whose method is wiki_totalhits.
NeedsTotalhits(h, its) == Filter(its, LAMBDA o : Method(h[o]) = "wiki_totalhits")

\* A worklist that keeps every pending record, duplicates included.
EveryPending(h, needs) == needs

\* unique_phrases: the first pending record of every phrase text.
FirstOfPhrase(h, needs) ==
    Filter(needs, LAMBDA o :
        ~\E k \in 1..Len(needs) : needs[k] < o /\ h[needs[k]].phrase = h[o].phrase)

\* main(), up to the confirmation prompt: existence check, load,
\* needs_processing_items, unique_phrases (item.copy() makes a new object that
\* shares the prominence dict of the record).
StartInteractive ==
    /\ script = "interactive" /\ pc = "start"
    /\ IF file = NoFile
       THEN pc' = "not_found" /\ UNCHANGED <<heap, items, work, task>>
       ELSE LET h == Load(file)
                its == [i \in 1..Len(file) |-> i]
                firsts == FirstOfPhrase(h, NeedsTotalhits(h, its))
                copies == [j \in 1..Len(firsts) |-> h[firsts[j]]]
            IN /\ heap' = h \o copies
               /\ items' = its
               /\ work' = [j \in 1..Len(firsts) |-> Len(h) + j]
               /\ task' = [j \in 1..Len(firsts) |-> NewTask]
               /\ pc' = IF Len(firsts) = 0 THEN "nothing_to_do" ELSE "confirm"
    /\ UNCHANGED <<script, call, file, backups, checkpoints, net, processed, batchNo,
                   sem>>

\* main(): the confirmation prompt.
ConfirmInteractiveOn(response) ==
    /\ script = "interactive" /\ pc = "confirm"
    /\   IF Declined(response)
         THEN pc' = "cancelled" /\ UNCHANGED batchNo
         ELSE pc' = "loop" /\ batchNo' = 1
    /\ UNCHANGED <<script, call, file, backups, checkpoints, net, heap, items, work,
                   processed, task, sem>>

\* main(): the operator answers the prompt.
ConfirmInteractive == \E response \in Answers : ConfirmInteractiveOn(response)

\* main(): asyncio.run(process_batch(batch, ...)) is entered.
StartBatchInteractive ==
    /\ script = "interactive" /\ pc = "loop"
    /\ batchNo <= TotalBatches(Len(work), BATCH_SIZE_INTERACTIVE)
    /\ task' = [w \in DOMAIN task |->
                  IF w \in BatchOf(batchNo, BATCH_SIZE_INTERACTIVE)
                  THEN Task("wait", "") ELSE task[w]]
    /\ pc' = "batch"
    /\ UNCHANGED <<script, call, file, backups, checkpoints, net, heap, items, work,
                   processed, batchNo, sem>>

\* process_batch: the for loop reaches item w (every earlier item of the
\* batch is finished) and starts sleep(0.5).
NextItemInteractive(w) ==
    /\ script = "interactive" /\ pc = "batch"
    /\ task[w].pc = "wait"
    /\ \A v \in BatchOf(batchNo, BATCH_SIZE_INTERACTIVE) :
           v < w => task[v].pc = "done"
    /\ task' = [task EXCEPT ![w].pc = "sleep1"]
    /\ UNCHANGED <<script, call, pc, file, backups, checkpoints, net, heap, items,
                   work, processed, batchNo, sem>>

\* process_batch: sleep(0.5) is over, find_article sends the search.
PaceSearchInteractive(w) ==
    /\ script = "interactive" /\ pc = "batch"
    /\ task[w].pc = "sleep1"
    /\ task' = [task EXCEPT ![w].pc = "search1"]
    /\ net' = TRUE
    /\ UNCHANGED <<script, call, pc, file, backups, checkpoints, heap, items, work,
                   processed, batchNo, sem>>

\* find_article returns: a title for 200 with results, None for everything
\* else (another status, an exception).
SearchInteractive(w) ==
    /\ script = "interactive" /\ pc = "batch"
    /\ task[w].pc = "search1"
    /\ \E r \in SearchResponses :
         IF r = "found"
         THEN /\ task' = [task EXCEPT ![w] =
                            Task("sleep2", Article(heap[work[w]].phrase))]
              /\ UNCHANGED heap
         ELSE /\ heap' = SetProm(heap, w,
                            Prom(0, "no_article", "", NoHits, <<"task", work[w]>>))
              /\ task' = [task EXCEPT ![w] = Task("done", "")]
    /\ UNCHANGED <<script, call, pc, file, backups, checkpoints, net, items, work,
                   processed, batchNo, sem>>

\* process_batch: sleep(0.3) is over, get_pageviews sends the request.
PacePvInteractive(w) ==
    /\ script = "interactive" /\ pc = "batch"
    /\ task[w].pc = "sleep2"
    /\ task' = [task EXCEPT ![w].pc = "pv"]
    /\ UNCHANGED <<script, call, pc, file, backups, checkpoints, net, heap, items,
                   work, processed, batchNo, sem>>

\* get_pageviews (also get_pageviews_safe of the sample script): the sum of
\* the views for 200, 0 for every other status and for every exception.
PvViews(title, r) == IF r = "ok" THEN Views(title) ELSE 0

\* get_pageviews returns for the response r and process_batch writes the
\* prominence.
PvInteractiveOn(w, r) ==
    /\ script = "interactive" /\ pc = "batch"
    /\ task[w].pc = "pv"
    /\ heap' = SetProm(heap, w,
                  Prom(PvViews(task[w].title, r), "wiki_pageviews",
                       task[w].title, NoHits, <<"task", work[w]>>))
    /\ task' = [task EXCEPT ![w] = Task("done", "")]
    /\ UNCHANGED <<script, call, pc, file, backups, checkpoints, net, items, work,
                   processed, batchNo, sem>>

\* The pageviews request of item w is answered.
PvInteractive(w) == \E r \in PvResponses : PvInteractiveOn(w, r)

\* process_batch returns: the for loop is through.
BatchDoneInteractive ==
    /\ script = "interactive" /\ pc = "batch"
    /\ \A w \in BatchOf(batchNo, BATCH_SIZE_INTERACTIVE) : task[w].pc = "done"
    /\ pc' = "apply"
    /\ UNCHANGED <<script, call, file, backups, checkpoints, net, heap, items, work,
                   processed, batchNo, task, sem>>

\* processed_phrases[processed_item["phrase"]] = processed_item["prominence"]
\* for the work items ws.
StoreResults(proc, h, ws) ==
    LET new == { h[work[w]].phrase : w \in ws }
    IN [p \in (DOMAIN proc) \cup new |->
          IF p \in new
          THEN h[work[CHOOSE w \in ws : h[work[w]].phrase = p]].prom
          ELSE proc[p]]

\* A merge that adds the new score to the score the record has, as
\* 'items[k]["prominence"]["score"] += ...' would.
BroadcastAccumulating(h, its, proc) ==
    [o \in DOMAIN h |->
        IF (\E k \in 1..Len(its) : its[k] = o) /\ h[o].phrase \in DOMAIN proc
        THEN [h[o] EXCEPT !.prom =
                [proc[h[o].phrase] EXCEPT !.score = @ + h[o].prom.score]]
        ELSE h[o]]

\* Apply results to all instances: every record of items whose phrase is a
\* key of processed_phrases gets that prominence dict (the same object).
Broadcast(h, its, proc) ==
    [o \in DOMAIN h |->
        IF (\E k \in 1..Len(its) : its[k] = o) /\ h[o].phrase \in DOMAIN proc
        THEN [h[o] EXCEPT !.prom = proc[h[o].phrase]]
        ELSE h[o]]

\* main(): the loop body after process_batch returned.
ApplyInteractive ==
    /\ script = "interactive" /\ pc = "apply"
    /\ LET proc == StoreResults(processed, heap,
                                BatchOf(batchNo, BATCH_SIZE_INTERACTIVE))
           h == Broadcast(heap, items, proc)
       IN /\ processed' = proc
          /\ heap' = h
          /\ checkpoints' =
               IF batchNo % CHECKPOINT_EVERY = 0
               THEN checkpoints \cup {<<batchNo, Dump(h, items)>>}
               ELSE checkpoints
          /\ file' = PrimaryAfterCheckpoint(file, Dump(h, items),
                        batchNo % CHECKPOINT_EVERY = 0)
    /\ task' = [w \in DOMAIN task |->
                  IF w \in BatchOf(batchNo, BATCH_SIZE_INTERACTIVE)
                  THEN GoneTask ELSE task[w]]
    /\ batchNo' = batchNo + 1
    /\ pc' = "loop"
    /\ UNCHANGED <<script, call, backups, net, items, work, sem>>

\* main(): final application of all results, sort, backup, save.
FinishInteractive ==
    /\ script = "interactive" /\ pc = "loop"
    /\ batchNo > TotalBatches(Len(work), BATCH_SIZE_INTERACTIVE)
    /\ LET h == Broadcast(heap, items, processed)
           its == SortDesc(h, items)
       IN /\ heap' = h
          /\ items' = its
          /\ backups' = WriteBackup(backups, ".pre-pageviews-backup.json", file)
          /\ file' = Dump(h, its)
    /\ pc' = "done"
    /\ UNCHANGED <<script, call, checkpoints, net, work, processed, batchNo, task,
                   sem>>

NextInteractive ==
    \/ StartInteractive
    \/ ConfirmInteractive
    \/ StartBatchInteractive
    \/ \E w \in DOMAIN task : NextItemInteractive(w)
    \/ \E w \in DOMAIN task : PaceSearchInteractive(w)
    \/ \E w \in DOMAIN task : SearchInteractive(w)
    \/ \E w \in DOMAIN task : PacePvInteractive(w)
    \/ \E w \in DOMAIN task : PvInteractive(w)
    \/ BatchDoneInteractive
    \/ ApplyInteractive
    \/ FinishInteractive

InitInteractive == script = "interactive" /\ InitCommon

SpecInteractive == InitInteractive /\ [][NextInteractive]_vars

(* ======================================================================= *)
(* sample_pageviews_ranking.py                                             *)
(* ======================================================================= *)
\* SAMPLE_SIZE (200 in the source, scaled down).
SAMPLE_SIZE == 2

\* needs_processing[:SAMPLE_SIZE]
Sample(needs) == SubSeq(needs, 1, Min(SAMPLE_SIZE, Len(needs)))

\* main_async(), up to the creation of the tasks: read_text() raises when the
\* file is missing; there is no prompt and no early return.
StartSample ==
    /\ script = "sample" /\ pc = "start"
    /\ IF file = NoFile
       THEN pc' = "not_found" /\ UNCHANGED <<heap, items, work, task, sem>>
       ELSE LET h == Load(file)
                its == [i \in 1..Len(file) |-> i]
                sample == Sample(NeedsTotalhits(h, its))
            IN /\ heap' = h
               /\ items' = its
               /\ work' = sample
               /\ task' = [w \in 1..Len(sample) |-> Task("wait", "")]
               /\ sem' = K
               /\ pc' = "gather"
    /\ UNCHANGED <<script, call, file, backups, checkpoints, net, processed, batchNo>>

\* process_phrase: "async with semaphore" entered.
AcquireSample(w) ==
    /\ script = "sample" /\ pc = "gather"
    /\ task[w].pc = "wait"
    /\ GateFree(sem)
    /\ sem' = sem - 1
    /\ task' = [task EXCEPT ![w].pc = "sleep1"]
    /\ UNCHANGED <<script, call, pc, file, backups, checkpoints, net, heap, items,
                   work, processed, batchNo>>

\* process_phrase: sleep(0.5) is over, find_wikipedia_article sends the search.
PaceSearchSample(w) ==
    /\ script = "sample" /\ pc = "gather"
    /\ task[w].pc = "sleep1"
    /\ task' = [task EXCEPT ![w].pc = "search1"]
    /\ net' = TRUE
    /\ UNCHANGED <<script, call, pc, file, backups, checkpoints, heap, items, work,
                   processed, batchNo, sem>>

\* find_wikipedia_article returns: a title for 200 with results, None for
\* everything else.
SearchSample(w) ==
    /\ script = "sample" /\ pc = "gather"
    /\ task[w].pc = "search1"
    /\ \E r \in SearchResponses :
         IF r = "found"
         THEN /\ task' = [task EXCEPT ![w] =
                            Task("sleep2", Article(heap[work[w]].phrase))]
              /\ UNCHANGED <<heap, sem>>
         ELSE /\ heap' = SetProm(heap, w,
                            Prom(0, "no_article_found", "", NoHits,
                                 <<"task", work[w]>>))
              /\ task' = [task EXCEPT ![w] = Task("done", "")]
              /\ sem' = sem + 1
    /\ UNCHANGED <<script, call, pc, file, backups, checkpoints, net, items, work,
                   processed, batchNo>>

\* process_phrase: sleep(0.3) is over, get_pageviews_safe sends the request.
PacePvSample(w) ==
    /\ script = "sample" /\ pc = "gather"
    /\ task[w].pc = "sleep2"
    /\ task' = [task EXCEPT ![w].pc = "pv"]
    /\ UNCHANGED <<script, call, pc, file, backups, checkpoints, net, heap, items,
                   work, processed, batchNo, sem>>

\* get_pageviews_safe returns and process_phrase writes the prominence.
PvSample(w) ==
    /\ script = "sample" /\ pc = "gather"
    /\ task[w].pc = "pv"
    /\ \E r \in PvResponses :
         heap' = SetProm(heap, w,
                    Prom(PvViews(task[w].title, r), "wiki_pageviews",
                         task[w].title, NoHits, <<"task", work[w]>>))
    /\ task' = [task EXCEPT ![w] = Task("done", "")]
    /\ sem' = sem + 1
    /\ UNCHANGED <<script, call, pc, file, backups, checkpoints, net, items, work,
                   processed, batchNo>>

\* sample_phrases = {item["phrase"]: item for item in sample};
\* items[i] = sample_phrases[item["phrase"]]: the last sample object of the
\* phrase replaces every record of that phrase.
UpdateSample(h, its, sample) ==
    [i \in 1..Len(its) |->
        IF \E k \in 1..Len(sample) : h[sample[k]].phrase = h[its[i]].phrase
        THEN LET last == CHOOSE k \in 1..Len(sample) :
                           /\ h[sample[k]].phrase = h[its[i]].phrase
                           /\ \A m \in (k + 1)..Len(sample) :
                                  h[sample[m]].phrase # h[its[i]].phrase
             IN sample[last]
        ELSE its[i]]

\* main_async(): every task is awaited; update of items, sort, backup, save.
FinishSample ==
    /\ script = "sample" /\ pc = "gather"
    /\ \A w \in DOMAIN task : task[w].pc = "done"
    /\ LET its == SortDesc(heap, UpdateSample(heap, items, work))
       IN /\ items' = its
          /\ backups' = WriteBackup(backups, ".sample-backup.json", file)
          /\ file' = Dump(heap, its)
    /\ task' = [w \in DOMAIN task |-> GoneTask]
    /\ pc' = "done"
    /\ UNCHANGED <<script, call, checkpoints, net, heap, work, processed, batchNo, sem>>

NextSample ==
    \/ StartSample
    \/ \E w \in DOMAIN task : AcquireSample(w)
    \/ \E w \in DOMAIN task : PaceSearchSample(w)
    \/ \E w \in DOMAIN task : SearchSample(w)
    \/ \E w \in DOMAIN task : PacePvSample(w)
    \/ \E w \in DOMAIN task : PvSample(w)
    \/ FinishSample

InitSample == script = "sample" /\ InitCommon

SpecSample == InitSample /\ [][NextSample]_vars

(* ======================================================================= *)
(* rank_phrases_by_pageviews.py and rank_phrases_by_prominence.py          *)
(* ======================================================================= *)
RankScripts == {"pageviews", "prominence"}

\* len(unique_strategies) of wiki_search_multiple: phrase B stands for a
\* phrase of two words (verbatim, first word), A and C for a single plain
\* word (all six rewrites coincide).
StrategyCount(phrase) == IF phrase = "B" THEN 2 ELSE 1

\* js["query"]["searchinfo"].get("totalhits", 0) of a search with results.
TotalHitsOf(phrase) == 7

\* main(), up to gather(): existence check, load, score_all(items) creates
\* one task per record.
StartRank ==
    /\ script \in RankScripts /\ pc = "start"
    /\ IF file = NoFile
       THEN pc' = "not_found" /\ UNCHANGED <<heap, items, work, task>>
       ELSE LET its == [i \in 1..Len(file) |-> i]
            IN /\ heap' = Load(file)
               /\ items' = its
               /\ work' = its
               /\ task' = [w \in 1..Len(its) |-> Task("wait", "")]
               /\ pc' = "gather"
    /\ UNCHANGED <<script, call, file, backups, checkpoints, net, processed, batchNo,
                   sem>>

\* score_one: the first "async with SEM" entered; the search function starts
\* its sleep(0.5).
AcquireSearchRank(w) ==
    /\ script \in RankScripts /\ pc = "gather"
    /\ task[w].pc = "wait"
    /\ GateFree(sem)
    /\ sem' = sem - 1
    /\ task' = [task EXCEPT ![w] = RankTask("sleep1", "", 0, 1)]
    /\ UNCHANGED <<script, call, pc, file, backups, checkpoints, net, heap, items,
                   work, processed, batchNo>>

\* wiki_search / wiki_search_multiple: sleep(0.5) is over, the search is sent.
PaceSearchRank(w) ==
    /\ script \in RankScripts /\ pc = "gather"
    /\ task[w].pc = "sleep1"
    /\ task' = [task EXCEPT ![w].pc = "search1"]
    /\ net' = TRUE
    /\ UNCHANGED <<script, call, pc, file, backups, checkpoints, heap, items, work,
                   processed, batchNo, sem>>

\* score_one: the search returned (title, hits) with a title: the first gate
\* section is left and the task queues for the second one.
FoundRank(w) ==
    /\ task' = [task EXCEPT ![w] =
                  RankTask("wait2", Article(heap[work[w]].phrase),
                           TotalHitsOf(heap[work[w]].phrase), 0)]
    /\ sem' = sem + 1
    /\ UNCHANGED heap

\* score_one: the search returned (None, hits): the gate section is left and
\* the fallback outcome is written.
FallbackRank(w, hits) ==
    /\ heap' = SetProm(heap, w,
                  Prom(hits, "wiki_totalhits", "", NoHits, <<"task", work[w]>>))
    /\ task' = [task EXCEPT ![w] = Task("done", "")]
    /\ sem' = sem + 1

\* wiki_search_multiple: "continue": the next strategy starts with its
\* sleep(0.5); after the last one the function returns (None, 0).
NextStrategy(w) ==
    IF task[w].strat < StrategyCount(heap[work[w]].phrase)
    THEN /\ task' = [task EXCEPT ![w] = RankTask("sleep1", "", 0, task[w].strat + 1)]
         /\ UNCHANGED <<heap, sem>>
    ELSE FallbackRank(w, 0)

\* wiki_search_multiple: the response to the search of one strategy.
SearchPageviews(w) ==
    /\ script = "pageviews" /\ pc = "gather"
    /\ task[w].pc = "search1"
    /\ \E r \in SearchResponses :
         CASE r = "found" -> FoundRank(w)
           [] r = "s429" ->
                /\ task' = [task EXCEPT ![w].pc = "backoff"]
                /\ UNCHANGED <<heap, sem>>
           [] OTHER -> NextStrategy(w)
    /\ UNCHANGED <<script, call, pc, file, backups, checkpoints, net, items, work,
                   processed, batchNo>>

\* wiki_search_multiple: sleep(5) after a 429 is over, "continue".
BackoffSearchPageviews(w) ==
    /\ script = "pageviews" /\ pc = "gather"
    /\ task[w].pc = "backoff"
    /\ NextStrategy(w)
    /\ UNCHANGED <<script, call, pc, file, backups, checkpoints, net, items, work,
                   processed, batchNo>>

\* wiki_search: the response to the search.  A status other than 200 and 429
\* makes r.json() or the lookup of "query" raise: (None, 0).
SearchProminence(w) ==
    /\ script = "prominence" /\ pc = "gather"
    /\ task[w].pc = "search1"
    /\ \E r \in SearchResponses :
         CASE r = "found" -> FoundRank(w)
           [] r = "s429" ->
                /\ task' = [task EXCEPT ![w].pc = "backoff"]
                /\ UNCHANGED <<heap, sem>>
           [] OTHER -> FallbackRank(w, 0)
    /\ UNCHANGED <<script, call, pc, file, backups, checkpoints, net, items, work,
                   processed, batchNo>>

\* wiki_search: sleep(5) after the 429 is over, the same request is sent again.
BackoffSearchProminence(w) ==
    /\ script = "prominence" /\ pc = "gather"
    /\ task[w].pc = "backoff"
    /\ task' = [task EXCEPT ![w].pc = "search2"]
    /\ UNCHANGED <<script, call, pc, file, backups, checkpoints, net, heap, items,
                   work, processed, batchNo, sem>>

\* wiki_search: the response to the retry: (None, 0) unless it is 200.
RetryProminence(w) ==
    /\ script = "prominence" /\ pc = "gather"
    /\ task[w].pc = "search2"
    /\ \E r \in SearchResponses :
         IF r = "found" THEN FoundRank(w) ELSE FallbackRank(w, 0)
    /\ UNCHANGED <<script, call, pc, file, backups, checkpoints, net, items, work,
                   processed, batchNo>>

\* score_one: the second "async with SEM" entered; pageviews() starts its
\* sleep(0.5).
AcquirePvRank(w) ==
    /\ script \in RankScripts /\ pc = "gather"
    /\ task[w].pc = "wait2"
    /\ GateFree(sem)
    /\ sem' = sem - 1
    /\ task' = [task EXCEPT ![w].pc = "sleep2"]
    /\ UNCHANGED <<script, call, pc, file, backups, checkpoints, net, heap, items,
                   work, processed, batchNo>>

\* pageviews(): sleep(0.5) is over, the request is sent.
PacePvRank(w) ==
    /\ script \in RankScripts /\ pc = "gather"
    /\ task[w].pc = "sleep2"
    /\ task' = [task EXCEPT ![w].pc = "pv"]
    /\ UNCHANGED <<script, call, pc, file, backups, checkpoints, net, heap, items,
                   work, processed, batchNo, sem>>

\* score_one: the prominence written once pageviews() returned views.
\* pageviews script: wiki_pageviews whatever the count; prominence script:
\* wiki_pageviews only "if views", else the totalhits fallback.
ScoreOne(s, t, views, o) ==
    IF s = "pageviews"
    THEN Prom(views, "wiki_pageviews", t.title, t.hits, <<"task", o>>)
    ELSE IF views # 0
         THEN Prom(views, "wiki_pageviews", t.title, NoHits, <<"task", o>>)
         ELSE Prom(t.hits, "wiki_totalhits", "", NoHits, <<"task", o>>)

\* pageviews() returned views: the gate section is left and score_one writes
\* the prominence.
ScoredRank(w, views) ==
    /\ heap' = SetProm(heap, w, ScoreOne(script, task[w], views, work[w]))
    /\ task' = [task EXCEPT ![w] = Task("done", "")]
    /\ sem' = sem + 1

\* pageviews(): the response.  429: sleep(5); 200: the sum of the views;
\* every other status and every exception: 0.
PvRank(w) ==
    /\ script \in RankScripts /\ pc = "gather"
    /\ task[w].pc = "pv"
    /\ \E r \in PvResponses :
         IF r = "s429"
         THEN /\ task' = [task EXCEPT ![w].pc = "backoff2"]
              /\ UNCHANGED <<heap, sem>>
         ELSE ScoredRank(w, PvViews(task[w].title, r))
    /\ UNCHANGED <<script, call, pc, file, backups, checkpoints, net, items, work,
                   processed, batchNo>>

\* pageviews(): sleep(5) after the 429 is over, "return 0".
BackoffPvRank(w) ==
    /\ script \in RankScripts /\ pc = "gather"
    /\ task[w].pc = "backoff2"
    /\ ScoredRank(w, 0)
    /\ UNCHANGED <<script, call, pc, file, backups, checkpoints, net, items, work,
                   processed, batchNo>>

\* PHRASES_PATH.with_suffix(...) of the backup.
BackupSuffix(s) ==
    IF s = "pageviews" THEN ".pageviews-backup.json" ELSE ".backup.json"

\* main(): gather() returned; sort, backup, save.
FinishRank ==
    /\ script \in RankScripts /\ pc = "gather"
    /\ \A w \in DOMAIN task : task[w].pc = "done"
    /\ LET its == SortDesc(heap, items)
       IN /\ items' = its
          /\ backups' = WriteBackup(backups, BackupSuffix(script), file)
          /\ file' = Dump(heap, its)
    /\ task' = [w \in DOMAIN task |-> GoneTask]
    /\ pc' = "done"
    /\ UNCHANGED <<script, call, checkpoints, net, heap, work, processed, batchNo, sem>>

NextRank ==
    \/ StartRank
    \/ \E w \in DOMAIN task : AcquireSearchRank(w)
    \/ \E w \in DOMAIN task : PaceSearchRank(w)
    \/ \E w \in DOMAIN task : AcquirePvRank(w)
    \/ \E w \in DOMAIN task : PacePvRank(w)
    \/ \E w \in DOMAIN task : PvRank(w)
    \/ \E w \in DOMAIN task : BackoffPvRank(w)
    \/ FinishRank

NextPageviews ==
    \/ NextRank
    \/ \E w \in DOMAIN task : SearchPageviews(w)
    \/ \E w \in DOMAIN task : BackoffSearchPageviews(w)

NextProminence ==
    \/ NextRank
    \/ \E w \in DOMAIN task : SearchProminence(w)
    \/ \E w \in DOMAIN task : BackoffSearchProminence(w)
    \/ \E w \in DOMAIN task : RetryProminence(w)

InitPageviews == script = "pageviews" /\ InitCommon
InitProminence == script = "prominence" /\ InitCommon

SpecPageviews == InitPageviews /\ [][NextPageviews]_vars
SpecProminence == InitProminence /\ [][NextProminence]_vars

(* ======================================================================= *)
(* Specifications                                                          *)
(* ======================================================================= *)
\* The three scripts that run their tasks behind a Semaphore(2) and batch or
\* gather them: safe, sample, pageviews.
InitGate == script \in {"safe", "sample", "pageviews"} /\ InitCommon
NextGate == NextSafe \/ NextSample \/ NextPageviews
SpecGate == InitGate /\ [][NextGate]_vars

\* Both rank scripts.
InitRank == script \in RankScripts /\ InitCommon
NextRankScripts ==
    \/ NextRank
    \/ \E w \in DOMAIN task : SearchPageviews(w)
    \/ \E w \in DOMAIN task : BackoffSearchPageviews(w)
    \/ \E w \in DOMAIN task : SearchProminence(w)
    \/ \E w \in DOMAIN task : BackoffSearchProminence(w)
    \/ \E w \in DOMAIN task : RetryProminence(w)
SpecRank == InitRank /\ [][NextRankScripts]_vars

\* The two scripts that work batch by batch: safe, interactive.
InitBatched == script \in {"safe", "interactive"} /\ InitCommon
NextBatched == NextSafe \/ NextInteractive
SpecBatched == InitBatched /\ [][NextBatched]_vars

\* The three schedulers of the propagation policy: safe (batches under a
\* ceiling), interactive (batches, one item after the other), pageviews
\* (one gather over all records).
InitSchedulers == script \in {"safe", "interactive", "pageviews"} /\ InitCommon
NextSchedulers == NextSafe \/ NextInteractive \/ NextPageviews
SpecSchedulers == InitSchedulers /\ [][NextSchedulers]_vars

\* The dataset of scenario A: two records of one phrase that has an article
\* with 5000 views ("A" for "Apollo 11") and one record of another phrase
\* ("C" for "Zzyzx Unknown Term"), none with a prominence.
ScenarioA ==
    [i \in 1..3 |->
        [Rec(IF i = 3 THEN "C" ELSE "A", Absent) EXCEPT !.extra = i % 2]]

\* interactive, run on its dataset files and on the dataset of scenario A.
InitScenarioA ==
    /\ script = "interactive"
    /\ file \in Datasets("interactive") \cup {ScenarioA}
    /\ InitRest
SpecScenarioA == InitScenarioA /\ [][NextInteractive]_vars

\* All five scripts.
Init == script \in Scripts /\ InitCommon
Next == NextSafe \/ NextInteractive \/ NextSample \/ NextRankScripts
Spec == Init /\ [][Next]_vars

(* ======================================================================= *)
(* rank_phrases_by_pageviews.py: wiki_search_multiple on its own           *)
(* ======================================================================= *)
\* A string is a sequence of one-character strings.
\* The longest phrase drawn from PhraseChars.
MaxLen == 3

\* The longest list of search results of one response ("srlimit": 5 in the
\* source, scaled down).
MaxResults == 2

\* The characters of the phrases: a letter in both cases, the blank and the
\* three characters the rewrites look for.
PhraseChars == {"a", "A", " ", ".", "'", "&"}

\* "The a", "a the a", "aaaa a": phrases with an article to remove and with a
\* word of more than 3 characters.
NamedPhrases ==
    { <<"T", "h", "e", " ", "a">>,
      <<"a", " ", "t", "h", "e", " ", "a">>,
      <<"a", "a", "a", "a", " ", "a">> }

\* All sequences over S of length 1..n.
RECURSIVE StringsUpTo(_, _)
StringsUpTo(S, n) ==
    IF n = 0 THEN {}
    ELSE LET shorter == StringsUpTo(S, n - 1)
         IN { <<c>> : c \in S } \cup shorter
              \cup { Append(t, c) : t \in shorter, c \in S }

\* The phrases wiki_search_multiple is called with.
ResolverPhrases == StringsUpTo(PhraseChars, MaxLen) \cup NamedPhrases

\* The titles a search may list.
Titles ==
    { <<"a">>, <<"A">>, <<"a", " ", "a">>, <<"a", "a", "a", "a">>, <<"b">> }

\* None
NoTitle == <<>>

\* str.lower() on one character.
LowerChar(c) == CASE c = "A" -> "a" [] c = "T" -> "t" [] OTHER -> c

\* str.lower()
LowerStr(s) == [i \in 1..Len(s) |-> LowerChar(s[i])]

\* s.startswith(p)
StartsWith(s, p) == Len(p) <= Len(s) /\ SubSeq(s, 1, Len(p)) = p

RECURSIVE Replace(_, _, _)
\* s.replace(old, new): every non-overlapping occurrence, from the left.
Replace(s, old, new) ==
    IF s = <<>> THEN <<>>
    ELSE IF StartsWith(s, old)
         THEN new \o Replace(SubSeq(s, Len(old) + 1, Len(s)), old, new)
         ELSE <<Head(s)>> \o Replace(Tail(s), old, new)

RECURSIVE Strip(_)
\* s.strip()
Strip(s) ==
    IF s = <<>> THEN s
    ELSE IF Head(s) = " " THEN Strip(Tail(s))
    ELSE IF s[Len(s)] = " " THEN Strip(SubSeq(s, 1, Len(s) - 1))
    ELSE s

RECURSIVE Split(_)
\* s.split(): the words between runs of blanks.
Split(s) ==
    LET t == Strip(s)
    IN IF t = <<>> THEN <<>>
       ELSE LET blanks == { i \in 1..Len(t) : t[i] = " " }
                n == IF blanks = {} THEN Len(t) + 1
                     ELSE CHOOSE i \in blanks : \A j \in blanks : i <= j
            IN <<SubSeq(t, 1, n - 1)>> \o Split(SubSeq(t, n, Len(t)))

\* sub in s
Contains(s, sub) ==
    \E i \in 0..(Len(s) - Len(sub)) : SubSeq(s, i + 1, i + Len(sub)) = sub

\* x in lst
InList(lst, x) == \E i \in 1..Len(lst) : lst[i] = x

\* wiki_search_multiple: the list "strategies".
Strategies(phrase) ==
    << phrase,
       Replace(phrase, <<"'">>, <<>>),
       Replace(phrase, <<"&">>, <<"a", "n", "d">>),
       IF Len(Split(phrase)) > 1 THEN Split(phrase)[1] ELSE phrase,
       Replace(Replace(phrase, <<"T", "h", "e", " ">>, <<>>),
               <<"t", "h", "e", " ">>, <<>>),
       Replace(phrase, <<".">>, <<>>) >>

RECURSIVE UniqueFrom(_, _, _)
\* for strategy in strategies:
\*     if strategy not in unique_strategies and strategy.strip():
\*         unique_strategies.append(strategy.strip())
UniqueFrom(strategies, i, unique) ==
    IF i > Len(strategies) THEN unique
    ELSE IF ~InList(unique, strategies[i]) /\ Strip(strategies[i]) # <<>>
         THEN UniqueFrom(strategies, i + 1, Append(unique, Strip(strategies[i])))
         ELSE UniqueFrom(strategies, i + 1, unique)

\* wiki_search_multiple: the list "unique_strategies".
UniqueStrategies(phrase) == UniqueFrom(Strategies(phrase), 1, <<>>)

\* The four tests of the condition that accepts a search result.
RuleA(phrase, term, title) == LowerStr(title) = LowerStr(phrase)
RuleB(phrase, term, title) == LowerStr(title) = LowerStr(term)
RuleC(phrase, term, title) == Contains(LowerStr(title), LowerStr(phrase))
RuleD(phrase, term, title) ==
    LET words == Split(LowerStr(phrase))
    IN \E i \in 1..Len(words) :
          Len(words[i]) > 3 /\ Contains(LowerStr(title), words[i])

\* The condition of the "if" in "for result in results".
Accepts(phrase, term, title) ==
    \/ RuleA(phrase, term, title)
    \/ RuleB(phrase, term, title)
    \/ RuleC(phrase, term, title)
    \/ RuleD(phrase, term, title)

\* title.replace(" ", "_")
Underscored(title) == Replace(title, <<" ">>, <<"_">>)

\* "for result in results: if ...: return title" and, when the loop ends,
\* "return results[0]" (results is not empty).
SelectTitle(phrase, term, results) ==
    LET accepted == { i \in 1..Len(results) : Accepts(phrase, term, results[i]) }
    IN IF accepted = {} THEN results[1]
       ELSE results[CHOOSE i \in accepted : \A j \in accepted : i <= j]

\* All sequences over S of length 0..n.
ResultLists(S, n) == {<<>>} \cup StringsUpTo(S, n)

\* The answers to a search request: a list of results with status 200, a
\* status 429, another status, or an exception of the request.
ResolverResponses ==
    { [status |-> "s200", results |-> rs] : rs \in ResultLists(Titles, MaxResults) }
      \cup { [status |-> st, results |-> <<>>] : st \in {"s429", "s500", "fail"} }

\* wiki_search_multiple(session, phrase) is called: the strategies are built.
ResolverStart ==
    /\ call.fn = "wiki_search_multiple" /\ call.pc = "start"
    /\ call' = [call EXCEPT !.pc = "loop", !.k = 1,
                            !.strategies = UniqueStrategies(call.phrase)]
    /\ UNCHANGED <<script, pc, file, backups, checkpoints, net, heap, items,
                   work, processed, batchNo, task, sem>>

\* One pass of "for search_term in unique_strategies" with the response r:
\* "continue" on a 429, on another status, on an exception and on an empty
\* list, otherwise the return of a title.  (The sleeps and the totalhits of
\* the response are in SearchPageviews and FoundRank.)
ResolverSearchOn(r) ==
    /\ call.fn = "wiki_search_multiple" /\ call.pc = "loop"
    /\ call.k <= Len(call.strategies)
    /\ LET term == call.strategies[call.k]
       IN call' =
            IF r.status = "s200" /\ r.results # <<>>
            THEN [call EXCEPT !.pc = "returned",
                              !.issued = Append(@, term),
                              !.results = r.results,
                              !.result = Underscored(
                                  SelectTitle(call.phrase, term, r.results))]
            ELSE [call EXCEPT !.k = @ + 1, !.issued = Append(@, term)]
    /\ UNCHANGED <<script, pc, file, backups, checkpoints, net, heap, items,
                   work, processed, batchNo, task, sem>>

\* The search of the strategy at hand is answered.
ResolverSearch == \E r \in ResolverResponses : ResolverSearchOn(r)

\* The loop is over: "return None, 0".
ResolverGiveUp ==
    /\ call.fn = "wiki_search_multiple" /\ call.pc = "loop"
    /\ call.k > Len(call.strategies)
    /\ call' = [call EXCEPT !.pc = "returned", !.result = NoTitle]
    /\ UNCHANGED <<script, pc, file, backups, checkpoints, net, heap, items,
                   work, processed, batchNo, task, sem>>

NextResolver == ResolverStart \/ ResolverSearch \/ ResolverGiveUp

\* wiki_search_multiple is called with a phrase; no script runs.
InitResolver ==
    /\ script = "none" /\ file = NoFile
    /\ pc = "start" /\ backups = {} /\ checkpoints = {} /\ net = FALSE
    /\ heap = <<>> /\ items = <<>> /\ work = <<>> /\ processed = <<>>
    /\ batchNo = 0 /\ task = <<>> /\ sem = K
    /\ \E p \in ResolverPhrases :
          call = [fn |-> "wiki_search_multiple", phrase |-> p, pc |-> "start",
                  strategies |-> <<>>, k |-> 0, issued |-> <<>>,
                  results |-> <<>>, result |-> NoTitle]

SpecResolver == InitResolver /\ [][NextResolver]_vars

(* ======================================================================= *)
(* month_range / the window of the pageviews request, on its own           *)
(* ======================================================================= *)
\* A date is <<year, month, day>>.
\* The years the current date is drawn from: a common year and a leap year.
Years == 2023..2024

\* "months=3": the default of month_range.
MONTHS == 3

\* calendar: leap years of the Gregorian calendar.
IsLeap(y) == (y % 4 = 0 /\ y % 100 # 0) \/ y % 400 = 0

\* calendar: the days of month m of year y.
DaysIn(y, m) ==
    CASE m \in {4, 6, 9, 11} -> 30
      [] m = 2 -> IF IsLeap(y) THEN 29 ELSE 28
      [] OTHER -> 31

\* The dates dt.date.today() may return.
Dates == { <<y, m, d>> : y \in Years, m \in 1..12, d \in 1..31 } \ 
         { <<y, m, d>> \in Years \X (1..12) \X (1..31) : d > DaysIn(y, m) }

\* The last day of the month before the month of the date.
EndOfPrevMonth(date) ==
    IF date[2] > 1 THEN <<date[1], date[2] - 1, DaysIn(date[1], date[2] - 1)>>
    ELSE <<date[1] - 1, 12, 31>>

RECURSIVE MinusDays(_, _)
\* date - dt.timedelta(days=n): n days back, a month at a time.
MinusDays(date, n) ==
    IF n < date[3] THEN <<date[1], date[2], date[3] - n>>
    ELSE MinusDays(EndOfPrevMonth(date), n - date[3])

\* date.replace(day=1)
ReplaceDay1(date) == <<date[1], date[2], 1>>

\* .strftime("%Y%m01"): the year and the month of the date, and the day 01.
FormatFirst(date) == <<date[1], date[2], 1>>

\* .strftime("%Y%m%d")
FormatDay(date) == date

\* month_range(months): (start, end) on the day "today".
MonthRange(today, months) ==
    [start |-> FormatFirst(MinusDays(ReplaceDay1(today), 30 * months)),
     end |-> FormatDay(MinusDays(today, 1))]

\* month_range() is called and returns.
CallMonthRange ==
    /\ call.fn = "month_range" /\ call.pc = "start"
    /\ LET range == MonthRange(call.today, MONTHS)
       IN call' = [call EXCEPT !.pc = "returned",
                               !.start = range.start, !.end = range.end]
    /\ UNCHANGED <<script, pc, file, backups, checkpoints, net, heap, items,
                   work, processed, batchNo, task, sem>>

NextWindow == CallMonthRange

\* month_range() is called on some day; no script runs.
InitWindow ==
    /\ script = "none" /\ file = NoFile
    /\ pc = "start" /\ backups = {} /\ checkpoints = {} /\ net = FALSE
    /\ heap = <<>> /\ items = <<>> /\ work = <<>> /\ processed = <<>>
    /\ batchNo = 0 /\ task = <<>> /\ sem = K
    /\ \E t \in Dates :
          call = [fn |-> "month_range", today |-> t, pc |-> "start",
                  start |-> <<>>, end |-> <<>>]

SpecWindow == InitWindow /\ [][NextWindow]_vars

(* ======================================================================= *)
(* Properties                                                              *)
(* ======================================================================= *)

\* C1 (concurrency gate): at every instant at most K = 2 tasks are inside a
\* gate-protected section, whatever the work items are and also after
\* failed requests and after the cancellation of a batch.
C1_GateBound == Cardinality(Holders) <= K

\* C1 witness: the gate is full and a further task is queued at it.
C1_Witness ==
    /\ Cardinality(Holders) = K
    /\ \E w \in DOMAIN task : task[w].pc \in {"wait", "wait2"}

\* A prominence dict that this run has written (by a task or by a handler of
\* process_batch), as opposed to one that came from the file.
RunWritten(p) == p.oid[1] \in {"task", "batch_timeout", "batch_error"}
FromFile(p) == p.oid[1] \in {"load", "none"}

\* The three fields that make two prominences identical.
Outcome(p) == <<p.score, p.method, p.article>>

\* The batch size of the running script and the batch a work item falls in.
BatchSizeOf == IF script = "safe" THEN BATCH_SIZE ELSE BATCH_SIZE_INTERACTIVE
BatchIndex(w) == ((w - 1) \div BatchSizeOf) + 1

\* The run has ended (normally or by one of the early returns).
Terminal == pc \in {"done", "not_found", "no_connection", "nothing_to_do", "cancelled"}

\* The step in which wait_for() expires on the batch in progress: the batch
\* ends while a task of it is unfinished.
TimeoutStep ==
    /\ script = "safe" /\ pc = "batch" /\ pc' = "apply"
    /\ \E w \in DOMAIN task : BatchIndex(w) = batchNo /\ task[w].pc # "done"

\* C2 (duplicate convergence): after a run has completed, any two records
\* with the same phrase text have the same score, method and article.
C2_DuplicatesConverge ==
    pc = "done" =>
        \A i, j \in 1..Len(items) :
            heap[items[i]].phrase = heap[items[j]].phrase
                => Outcome(heap[items[i]].prom) = Outcome(heap[items[j]].prom)

\* C3 (no downgrade): once a record's method is wiki_pageviews, no step of
\* the run changes it to another method.
C3_NoDowngrade ==
    [][\A o \in DOMAIN heap :
          Method(heap[o]) = "wiki_pageviews" => Method(heap'[o]) = "wiki_pageviews"]_vars

\* How far a task is from its end: every step of a task moves it down this
\* scale (a further search strategy counts as a lower step than the one
\* before it).
PcRank(p) ==
    CASE p = "new" -> 41 [] p = "wait" -> 40
      [] p = "sleep1" -> 11 [] p = "search1" -> 10 [] p = "backoff" -> 9
      [] p = "search2" -> 8 [] p = "wait2" -> 7 [] p = "sleep2" -> 6
      [] p = "pv" -> 5 [] p = "backoff2" -> 4
      [] p = "done" -> 2 [] p = "cancelled" -> 2 [] p = "gone" -> 0

TaskRank(t) ==
    PcRank(t.pc)
      + (IF t.pc \in {"sleep1", "search1", "backoff", "search2"} /\ t.strat = 1
         THEN 14 ELSE 0)

RECURSIVE SumRank(_)
SumRank(ts) == IF ts = <<>> THEN 0 ELSE TaskRank(Head(ts)) + SumRank(Tail(ts))

\* How far the run is from its end.
MainRank ==
    CASE pc = "start" -> 1000
      [] pc = "confirm" -> 999
      [] pc = "loop" -> 4 * (MaxRecords + 2 - batchNo) + 3
      [] pc = "batch" -> 4 * (MaxRecords + 2 - batchNo) + 2
      [] pc = "apply" -> 4 * (MaxRecords + 2 - batchNo) + 1
      [] pc = "gather" -> 2
      [] OTHER -> 0

Measure == MainRank * 1000 + SumRank(task)

\* C4 (every item ends terminal): whatever the APIs answer, every step of a
\* run brings it nearer to its end; while the scheduler is working on the
\* items a further step is always possible (no failure of an item ends the
\* run); and when the run has completed, every work item carries a
\* prominence written by the run, with a score.
C4_EveryItemTerminal ==
    /\ [][Measure' < Measure]_vars
    /\ [](pc \in {"batch", "gather"} => ENABLED NextSchedulers)
    /\ [](pc = "done" =>
            \A w \in DOMAIN work :
                /\ RunWritten(heap[work[w]].prom)
                /\ heap[work[w]].prom.score \in Nat)

\* C4 witness: a completed run in which an item ended with a zero-score
\* marker after a failed lookup.
C4_Witness ==
    /\ pc = "done"
    /\ \E w \in DOMAIN work :
          Method(heap[work[w]]) \in {"error", "timeout", "api_error", "batch_timeout"}

\* C5 (batch timeout): when the batch ceiling expires, every item of the
\* batch whose task was unfinished carries {score 0, method batch_timeout};
\* the run goes on: the results are applied, and every later batch is started.
C5_BatchTimeout ==
    /\ [][TimeoutStep =>
            \A w \in DOMAIN task :
                (BatchIndex(w) = batchNo /\ task[w].pc # "done")
                    => Outcome(heap'[work[w]].prom) = <<0, "batch_timeout", "">>]_vars
    /\ [][script = "safe" =>
            /\ pc = "apply" => (pc' = "loop" /\ batchNo' = batchNo + 1)
            /\ (pc = "loop" /\ batchNo <= TotalBatches(Len(work), BATCH_SIZE))
                  => (pc' \in {"batch", "apply"} /\ batchNo' = batchNo)]_vars
    /\ [](script = "safe" /\ pc = "done" =>
            \A w \in DOMAIN work : RunWritten(heap[work[w]].prom))

\* C5 witness: the first batch has timed out, its first item carries
\* batch_timeout, and a request of the second batch is in flight.
C5_Witness ==
    /\ script = "safe" /\ pc = "batch" /\ batchNo = 2
    /\ Method(heap[work[1]]) = "batch_timeout"
    /\ \E w \in DOMAIN task : task[w].pc \in {"search1", "pv"}

\* C6 (only the unprocessed items are marked): on a batch timeout an item
\* whose task had completed keeps the outcome its task assigned.
C6_CompletedKept ==
    [][TimeoutStep =>
          \A w \in DOMAIN task :
              (BatchIndex(w) = batchNo /\ task[w].pc = "done")
                  => heap'[work[w]] = heap[work[w]]]_vars

\* C7 (failure isolation): when the processing of one item of a batch raises
\* (in safe the exact-phrase search of an item ends the item at once only by
\* raising), that item's outcome is error or batch_error, and no sibling's
\* task or record changes.
C7_FailureIsolation ==
    [][\A w \in DOMAIN task :
          (script = "safe" /\ pc = "batch"
             /\ task[w].pc = "search1" /\ task'[w].pc = "done")
          => /\ Method(heap'[work[w]]) \in {"error", "batch_error"}
             /\ \A v \in DOMAIN task \ {w} :
                    task'[v] = task[v] /\ heap'[work[v]] = heap[work[v]]]_vars

\* C8 (cross-batch ordering): while batch n is in progress no task of a
\* later batch exists and no item of a later batch has been written; every
\* earlier batch is finished, and its results are in the dataset.
C8_BatchOrder ==
    script \in {"safe", "interactive"} =>
        \A w \in DOMAIN task :
            /\ BatchIndex(w) > batchNo =>
                  task[w].pc = "new" /\ FromFile(heap[work[w]].prom)
            /\ BatchIndex(w) < batchNo =>
                  /\ task[w].pc = "gone"
                  /\ RunWritten(heap[work[w]].prom)
                  /\ \E k \in 1..Len(items) :
                        /\ heap[items[k]].phrase = heap[work[w]].phrase
                        /\ PVal(heap[items[k]].prom) = PVal(heap[work[w]].prom)

\* C8 witness: a request of the second batch is in flight.
C8_Witness ==
    /\ script \in {"safe", "interactive"} /\ pc = "batch" /\ batchNo = 2
    /\ \E w \in DOMAIN task : BatchIndex(w) = 2 /\ task[w].pc = "search1"

\* C9 (scenario B): when the retry of a rate-limited search is not answered
\* with 200 (so also when it is answered 429 again), the item resolves to
\* score 0 with method timeout or error.
C9_ScenarioB ==
    [][\A w \in DOMAIN task :
          (script = "prominence" /\ task[w].pc = "search2" /\ task'[w].pc = "done")
          => /\ heap'[work[w]].prom.score = 0
             /\ Method(heap'[work[w]]) \in {"timeout", "error"}]_vars

\* C10 (pageviews rate limit): after the back-off that follows a 429 of the
\* pageviews API the fetcher sends the same request again.
C10_PvRetry ==
    [][\A w \in DOMAIN task :
          (task[w].pc = "backoff2" /\ task'[w] # task[w]) => task'[w].pc = "pv"]_vars

\* C11 (resolver 429 handling): after the pause that follows a 429 the
\* resolver issues the search of the same strategy again; it does not move
\* on to the next strategy or give up.
C11_ResolverRetry ==
    [][\A w \in DOMAIN task :
          (script = "pageviews" /\ task[w].pc = "backoff" /\ task'[w] # task[w])
          => /\ task'[w].pc \in {"sleep1", "search1"}
             /\ task'[w].strat = task[w].strat]_vars

\* C12 (scenario C): when the statistics API answers 404 for the article
\* resolved for an item, the item gets score 0 with method
\* wiki_pageviews_notfound (and so not the no-article method), for the
\* resolved article.
C12_ScenarioC ==
    [][\A w \in DOMAIN task :
          PvSafeOn(w, "s404")
          => /\ heap'[work[w]].prom.score = 0
             /\ Method(heap'[work[w]]) = "wiki_pageviews_notfound"
             /\ Method(heap'[work[w]]) # "no_wikipedia_article"
             /\ heap'[work[w]].prom.article = task[w].title]_vars

\* C12 witness: an item carries wiki_pageviews_notfound together with the
\* article that was resolved for it.
C12_Witness ==
    \E w \in DOMAIN work :
        /\ script = "safe"
        /\ Method(heap[work[w]]) = "wiki_pageviews_notfound"
        /\ heap[work[w]].prom.article # ""

\* C13 (fetcher failure outcome): for a resolved article, a pageviews
\* response with a status other than 2xx and 404, or a transport failure,
\* gives the item score 0 with method error or api_error, and the item's
\* processing ends normally (nothing is raised past the fetcher).
C13_FetcherFailure ==
    [][\A w \in DOMAIN task : \A r \in {"s429", "s500", "fail"} :
          (PvSafeOn(w, r) \/ PvInteractiveOn(w, r))
          => /\ heap'[work[w]].prom.score = 0
             /\ Method(heap'[work[w]]) \in {"error", "api_error"}
             /\ task'[w].pc = "done" /\ pc' = pc]_vars

\* C14 (per-request timeout): when the search call or the pageviews call of
\* an item times out, the item's outcome is method timeout with score 0, and
\* the batch goes on.
C14_RequestTimeout ==
    [][\A w \in DOMAIN task :
          (\/ SearchExactSafeOn(w, "timeout")
           \/ SearchBroadSafeOn(w, "timeout")
           \/ PvSafeOn(w, "timeout"))
          => /\ heap'[work[w]].prom.score = 0
             /\ Method(heap'[work[w]]) = "timeout"
             /\ pc' = pc]_vars

\* The dataset file exists and every record in it has method wiki_pageviews.
AllPageviews(f) ==
    /\ f # NoFile
    /\ \A i \in 1..Len(f) : f[i].prom.method = "wiki_pageviews"

\* C15 (scenario D): a run of the safe script on a dataset whose records all
\* have method wiki_pageviews finds zero pending work items and ends there;
\* it writes no backup file, no checkpoint file, and not the dataset file.
C15_ScenarioD ==
    /\ [][(script = "safe" /\ pc = "start" /\ AllPageviews(file)
             /\ pc' # "no_connection")
          => (pc' = "nothing_to_do" /\ work' = <<>>)]_vars
    /\ [][(script = "safe" /\ AllPageviews(file))
          => (file' = file /\ backups' = {} /\ checkpoints' = {})]_vars
    /\ [][pc # "nothing_to_do"]_vars
    /\ [](script = "safe" /\ pc = "nothing_to_do"
            => (work = <<>> /\ task = <<>> /\ backups = {} /\ checkpoints = {}))

\* C15 witness: the run on a non-empty dataset of wiki_pageviews records has
\* ended with nothing to do.
C15_Witness ==
    /\ script = "safe" /\ pc = "nothing_to_do"
    /\ AllPageviews(file) /\ Len(file) >= 2

\* C16 (missing input file): when the run has aborted because the dataset
\* file does not exist, no network request has been issued.
C16_NoNetworkBeforeAbort == pc = "not_found" => ~net

\* C17 (confirmation gate): when the operator answers anything but "y"/"Y"
\* at the prompt, the run ends there: no work item has been or is ever
\* dispatched, and neither the dataset file nor a backup nor a checkpoint
\* has been written.
C17_ConfirmationGate ==
    /\ [][\A r \in Answers \ {"y", "Y"} :
            (ConfirmSafeOn(r) \/ ConfirmInteractiveOn(r))
            => /\ pc' = "cancelled"
               /\ file' = file /\ backups' = backups
               /\ checkpoints' = checkpoints /\ task' = task]_vars
    /\ [][pc' \in {"confirm", "cancelled"} => file' = file]_vars
    /\ [][pc # "cancelled"]_vars
    /\ [](pc = "cancelled" =>
            /\ backups = {} /\ checkpoints = {}
            /\ \A w \in DOMAIN task :
                  task[w].pc = "new" /\ FromFile(heap[work[w]].prom))

\* C17 witness: a run with pending work has been declined.
C17_Witness == pc = "cancelled" /\ Len(work) >= 2

\* C18 (backup before save): the primary dataset file is written only by the
\* step that ends a run, and that step first writes a backup file holding
\* exactly the content the primary file had before the write.
C18_BackupBeforeSave ==
    /\ [][file' # file => (pc # "done" /\ pc' = "done")]_vars
    /\ [][(pc # "done" /\ pc' = "done")
          => \E b \in backups' \ backups : b[2] = file]_vars

\* C18 witness: a run has saved a dataset that differs from the one it
\* loaded, and the loaded one is in a backup file.
C18_Witness ==
    /\ pc = "done"
    /\ \E b \in backups : b[2] # file /\ Len(b[2]) = Len(file)

\* C19 (checkpoints are non-destructive, the primary is written once): a
\* step that writes a progress file leaves the primary file as it was; the
\* primary file changes only in the step that ends the run, taken after the
\* last batch has been applied; that step writes it, and nothing follows it.
C19_PrimaryWrittenOnce ==
    /\ [][checkpoints' # checkpoints => file' = file]_vars
    /\ [][file' # file =>
            /\ pc = "loop" /\ pc' = "done"
            /\ batchNo > TotalBatches(Len(work), BatchSizeOf)
            /\ \A w \in DOMAIN task : task[w].pc = "gone"]_vars
    /\ [][(pc # "done" /\ pc' = "done") => backups' # backups]_vars
    /\ [][pc # "done"]_vars

\* C19 witness: a progress file with the results so far exists while the
\* primary file still has the loaded content.
C19_Witness ==
    /\ script \in {"safe", "interactive"} /\ pc = "loop"
    /\ \E c \in checkpoints : c[2] # file

\* C20 (merge is idempotent): applying the merge of the results gathered so
\* far to a dataset they have already been merged into changes no record;
\* in particular the final merge, which follows the per-batch merges, leaves
\* every record as it was.
C20_MergeIdempotent ==
    /\ [](script = "interactive" =>
            /\ Broadcast(heap, items, processed) = heap
            /\ LET merged == Broadcast(heap, items, processed)
               IN Broadcast(merged, items, processed) = merged)
    /\ [][(script = "interactive" /\ pc = "loop" /\ pc' = "done")
          => heap' = heap]_vars

\* C20 witness: results have been merged into two records of the same
\* phrase, and the final merge is about to be applied.
C20_Witness ==
    /\ script = "interactive" /\ pc = "loop"
    /\ batchNo > TotalBatches(Len(work), BATCH_SIZE_INTERACTIVE)
    /\ \E i, j \in 1..Len(items) :
          /\ i # j
          /\ heap[items[i]].phrase = heap[items[j]].phrase
          /\ heap[items[i]].phrase \in DOMAIN processed
          /\ RunWritten(heap[items[i]].prom)
          /\ RunWritten(heap[items[j]].prom)

\* C21 (merge by value): no two records of the dataset are the same object,
\* and no two records hold the same prominence dict object.
C21_MergeByValue ==
    \A i, j \in 1..Len(items) :
        i # j =>
            /\ items[i] # items[j]
            /\ heap[items[i]].prom.oid # NoOid
                  => heap[items[i]].prom.oid # heap[items[j]].prom.oid

\* The records of its whose score is v, in list order.
ScoreClass(h, its, v) == Filter(its, LAMBDA o : Score(h[o]) = v)

\* The step that ends a completed run (final sort, backup, save).
FinishStep == pc # "done" /\ pc' = "done"

\* C22 (rank is a stable descending sort): after the final sort every
\* adjacent pair has score[i] >= score[i+1] (no prominence counting as 0);
\* for every score, the records of that score are the same and in the same
\* order as before the sort (so the result is a permutation, and ties keep
\* their order); and the saved file is the sorted list.
C22_StableSort ==
    [][(FinishStep /\ script \in {"safe", "interactive", "pageviews"}) =>
          /\ Len(items') = Len(items)
          /\ \A i \in 1..(Len(items') - 1) :
                Score(heap'[items'[i]]) >= Score(heap'[items'[i + 1]])
          /\ \A k \in 1..Len(items) :
                LET v == Score(heap'[items[k]])
                IN ScoreClass(heap', items', v) = ScoreClass(heap', items, v)
          /\ file' = Dump(heap', items')]_vars

\* C22 witness: a saved ranking with a tie between two different records and
\* a strict descent.
C22_Witness ==
    /\ pc = "done" /\ script \in {"safe", "interactive", "pageviews"}
    /\ \E i, j \in 1..(Len(items) - 1) :
          /\ Score(heap[items[i]]) = Score(heap[items[i + 1]])
          /\ Val(heap[items[i]]) # Val(heap[items[i + 1]])
          /\ Score(heap[items[j]]) > Score(heap[items[j + 1]])

\* The positions of the pending records of the file the interactive script
\* loads (method wiki_totalhits).
PendingIdx(f) == { i \in 1..Len(f) : f[i].prom.method = "wiki_totalhits" }

\* C23 (deduplication count): the number of unique work items is at most
\* the number of pending records, with equality exactly when no two pending
\* records share a phrase text; and no two work items have the same phrase.
C23_DedupCount ==
    [][(script = "interactive" /\ pc = "start" /\ pc' # "not_found") =>
          LET pending == PendingIdx(file)
              nodup == \A i, j \in pending :
                          i # j => file[i].phrase # file[j].phrase
          IN /\ Len(work') <= Cardinality(pending)
             /\ (Len(work') = Cardinality(pending)) <=> nodup
             /\ \A v, w \in 1..Len(work') :
                   v # w => heap'[work'[v]].phrase # heap'[work'[w]].phrase
             /\ { heap'[work'[w]].phrase : w \in 1..Len(work') }
                  = { file[i].phrase : i \in pending }]_vars

\* C23 witness: two pending records of one phrase gave one work item.
C23_Witness ==
    /\ script = "interactive" /\ pc = "confirm"
    /\ Len(work) < Cardinality(PendingIdx(file))

\* C24 (each phrase is looked up at most once per run): no two work items
\* of a run have the same phrase text.
C24_OneLookupPerPhrase ==
    \A v, w \in DOMAIN work :
        v # w => heap[work[v]].phrase # heap[work[w]].phrase

\* The run was started on the dataset d (the file still has that content, or
\* the backup of the loaded content has it).
RunOn(d) == file = d \/ \E b \in backups : b[2] = d

\* C25 (scenario A): a run on [Apollo 11, Apollo 11, Zzyzx Unknown Term] in
\* which every lookup for Apollo 11 gave the article with 5000 views and
\* every lookup for Zzyzx found nothing ends with the file holding the two
\* Apollo records first, both {5000, wiki_pageviews, "Apollo 11"}, and the
\* Zzyzx record last with {0, no_article}.
C25_ScenarioA ==
    (/\ script = "interactive" /\ RunOn(ScenarioA)
     /\ pc \in {"done", "nothing_to_do"}
     /\ \A w \in DOMAIN work :
           /\ heap[work[w]].phrase = "A"
                 => Outcome(heap[work[w]].prom) = <<5000, "wiki_pageviews", "A">>
           /\ heap[work[w]].phrase = "C"
                 => Method(heap[work[w]]) = "no_article")
    => /\ Len(file) = 3
       /\ \A i \in {1, 2} :
             /\ file[i].phrase = "A"
             /\ Outcome(file[i].prom) = <<5000, "wiki_pageviews", "A">>
       /\ file[3].phrase = "C"
       /\ file[3].prom.score = 0 /\ file[3].prom.method = "no_article"

\* The number of records of the file f with phrase p and payload e.
CountOf(f, p, e) ==
    Cardinality({ i \in 1..Len(f) : f[i].phrase = p /\ f[i].extra = e })

\* C26 (pass-through of extra fields): the save leaves every record's fields
\* other than prominence as they were loaded: the saved file has as many
\* records as the loaded one, and for every phrase and payload as many
\* records with that phrase and that payload.
C26_PassThrough ==
    [][FinishStep =>
          /\ Len(file') = Len(file)
          /\ \A i \in 1..Len(file) :
                CountOf(file', file[i].phrase, file[i].extra)
                    = CountOf(file, file[i].phrase, file[i].extra)]_vars

\* C27 (dataset isolation from in-flight tasks): while a batch is being
\* processed no record of the in-memory dataset changes.
C27_DatasetIsolation ==
    [][(pc = "batch" /\ pc' = "batch")
          => \A k \in 1..Len(items) : heap'[items[k]] = heap[items[k]]]_vars

\* The batch of item w has timed out: the handler of the batch timeout has
\* written the item.
TimedOut(w) == heap[work[w]].prom.oid[1] = "batch_timeout"

\* C28 (cancellation on batch timeout): the step in which a batch times out
\* leaves every task of the batch finished or cancelled and touches neither
\* the tasks nor the items of another batch; after it no task of the batch
\* takes a step (so none sends a request; the task only goes away with the
\* event loop of its batch) and no item of the batch is written (so the
\* batch_timeout outcome is never replaced).
C28_Cancellation ==
    [][/\ TimeoutStep =>
            \A w \in DOMAIN task :
               IF BatchIndex(w) = batchNo
               THEN /\ task'[w].pc \in {"done", "cancelled"}
                    /\ Method(heap'[work[w]]) = "batch_timeout"
               ELSE /\ task'[w] = task[w]
                    /\ heap'[work[w]] = heap[work[w]]
       /\ \A w \in DOMAIN task :
             TimedOut(w) => /\ task'[w] \in {task[w], GoneTask}
                            /\ heap'[work[w]] = heap[work[w]]
                            /\ Method(heap'[work[w]]) = "batch_timeout"]_vars

\* A second batch is being processed and a task of it has a request in
\* flight, after the first batch timed out.
C28_Witness ==
    /\ script = "safe" /\ pc = "batch" /\ batchNo = 2
    /\ \E v \in DOMAIN task : BatchIndex(v) = 1 /\ TimedOut(v)
    /\ \E w \in DOMAIN task :
          BatchIndex(w) = 2 /\ task[w].pc \in {"search1", "search2", "pv"}

\* The positions of a task at which a request of it is in flight.
RequestPcs == {"search1", "search2", "pv"}

\* The positions of a task at which it sleeps: the pacing delays and the
\* waits that precede a retry.
DelayPcs == {"sleep1", "sleep2", "backoff", "backoff2"}

\* C29 (pacing): a task sends a request only from a delay: whenever a task
\* comes to have a request in flight that it did not have before, the task
\* was sleeping in the state before.
C29_Pacing ==
    [][\A w \in DOMAIN task \cap DOMAIN task' :
          (task'[w].pc \in RequestPcs /\ task'[w].pc # task[w].pc)
             => task[w].pc \in DelayPcs]_vars

\* C30 (pageviews win over totalhits): a task that resolved an article and
\* has asked for its views ends with method wiki_pageviews, the article and
\* the count the fetcher returned as the score (the views of the article, or
\* 0), also when that count is 0: it never falls back to wiki_totalhits.
C30_PageviewsWin ==
    [][\A w \in DOMAIN task \cap DOMAIN task' :
          (task[w].pc \in {"pv", "backoff2"} /\ task'[w].pc = "done")
             => /\ Method(heap'[work[w]]) = "wiki_pageviews"
                /\ Score(heap'[work[w]]) \in {Views(task[w].title), 0}
                /\ heap'[work[w]].prom.article = task[w].title]_vars

\* The six rewrites of a phrase as they are sent: without the blanks at
\* their ends.
Rewrites(phrase) ==
    [i \in 1..Len(Strategies(phrase)) |-> Strip(Strategies(phrase)[i])]

\* The first position of x in the list lst (x is in lst).
FirstAt(lst, x) ==
    CHOOSE i \in 1..Len(lst) : lst[i] = x /\ \A j \in 1..(i - 1) : lst[j] # x

\* C31 (strategy list): the list of queries the resolver tries holds no
\* query twice, holds exactly the non-blank rewrites of the phrase, in the
\* order of their first occurrence among the six rewrites; the queries sent
\* are the first ones of that list, in its order, and the one answered with
\* a match is the last one sent.
C31_StrategyList ==
    (call.fn = "wiki_search_multiple" /\ call.pc # "start") =>
        LET u == call.strategies
            rw == Rewrites(call.phrase)
        IN /\ \A i, j \in 1..Len(u) : i # j => u[i] # u[j]
           /\ { u[i] : i \in 1..Len(u) }
                 = { rw[i] : i \in 1..Len(rw) } \ {<<>>}
           /\ \A i, j \in 1..Len(u) :
                 (i < j /\ InList(rw, u[i]) /\ InList(rw, u[j]))
                    => FirstAt(rw, u[i]) < FirstAt(rw, u[j])
           /\ call.issued = SubSeq(u, 1, Len(call.issued))
           /\ (call.pc = "returned" /\ call.result # NoTitle)
                 => Len(call.issued) = call.k

\* The priority of the first rule a title satisfies: 1 for (a) .. 4 for (d),
\* 5 when it satisfies none.
RulePriority(phrase, term, title) ==
    CASE RuleA(phrase, term, title) -> 1
      [] RuleB(phrase, term, title) -> 2
      [] RuleC(phrase, term, title) -> 3
      [] RuleD(phrase, term, title) -> 4
      [] OTHER -> 5

\* C32 (match-acceptance priority): the title the resolver returns for a
\* strategy is the one of the candidate with the best rule priority, the
\* first listed among those of that priority; a candidate of a better
\* priority is chosen over an earlier one of a worse priority, and the first
\* candidate is returned when no candidate satisfies a rule.
C32_MatchPriority ==
    (call.fn = "wiki_search_multiple" /\ call.pc = "returned"
       /\ call.result # NoTitle) =>
        LET rs == call.results
            term == call.issued[Len(call.issued)]
            prio(i) == RulePriority(call.phrase, term, rs[i])
            best == CHOOSE i \in 1..Len(rs) :
                       \A j \in 1..Len(rs) :
                          prio(i) < prio(j) \/ (prio(i) = prio(j) /\ i <= j)
        IN call.result = Underscored(rs[best])

\* The first day of the calendar month that lies n months before the month
\* of the date.
MonthsBefore(date, n) ==
    LET idx == date[1] * 12 + (date[2] - 1) - n
    IN <<idx \div 12, (idx % 12) + 1, 1>>

\* The day before the date.
Yesterday(date) ==
    IF date[3] > 1 THEN <<date[1], date[2], date[3] - 1>>
    ELSE IF date[2] > 1
         THEN <<date[1], date[2] - 1, DaysIn(date[1], date[2] - 1)>>
         ELSE <<date[1] - 1, 12, 31>>

\* C33 (trailing window): on every current date the window ends on the
\* previous day and starts on the first day of the calendar month three
\* months before the current month.
C33_TrailingWindow ==
    (call.fn = "month_range" /\ call.pc = "returned") =>
        /\ call.end = Yesterday(call.today)
        /\ call.start = MonthsBefore(call.today, 3)

\* The task of item w waits for a permit.
Waiting(w) == task[w].pc \in {"wait", "wait2"}

\* Every task of the run has finished (returned, or was cancelled).
AllFinished ==
    /\ task # <<>>
    /\ \A w \in DOMAIN task : task[w].pc \in {"done", "cancelled", "gone"}

\* C34 (gate liveness and permit conservation), as claimed: after every
\* step the tasks that hold the gate and the free permits are 2 together;
\* when all tasks have finished both permits are free; and a task that
\* waits for the gate stops waiting only by acquiring it (so that it cannot
\* fail to acquire it).
C34_GateLiveness ==
    [][/\ Cardinality(Holders') + sem' = K
       /\ AllFinished' => sem' = K
       /\ \A w \in DOMAIN task \cap DOMAIN task' :
             (Waiting(w) /\ task'[w].pc # task[w].pc)
                => task'[w].pc \in GatePcs]_vars

\* C34 as amended: a waiting task stops waiting by acquiring the gate, or
\* by being cancelled in the step in which its batch times out; every step
\* brings the run nearer to its end and a step is possible whenever a task
\* waits, so no task waits forever.
C34_GatePermits ==
    /\ [](Cardinality(Holders) + sem = K)
    /\ [](AllFinished => sem = K)
    /\ [][\A w \in DOMAIN task \cap DOMAIN task' :
             (Waiting(w) /\ task'[w].pc # task[w].pc)
                => \/ task'[w].pc \in GatePcs
                   \/ TimeoutStep /\ task'[w].pc = "cancelled"]_vars
    /\ [][Measure' < Measure]_vars
    /\ []((\E w \in DOMAIN task : Waiting(w)) => ENABLED NextGate)

\* Both permits are held and a third task waits for the gate.
C34_Witness ==
    /\ sem = 0
    /\ Cardinality(Holders) = K
    /\ \E w \in DOMAIN task : Waiting(w)
    /\ script \in {"sample", "pageviews"}

\* The number of records of the file f with the phrase p.
CountPhrase(f, p) == Cardinality({ i \in 1..Len(f) : f[i].phrase = p })

\* The number of records of the file f with the phrase p and a prominence of
\* the value v.
CountProm(f, p, v) ==
    Cardinality({ i \in 1..Len(f) : f[i].phrase = p /\ PVal(f[i].prom) = v })

\* The phrases of the work items.
WorkPhrases == { heap[work[w]].phrase : w \in DOMAIN work }

\* C35 (records outside the work set): the save neither adds nor removes a
\* record: the saved file has, for every phrase, as many records as the
\* loaded one; and the records of a phrase that is not the phrase of a work
\* item are saved with the prominence they were loaded with.
C35_OutsideWorkSet ==
    [][FinishStep =>
          /\ Len(file') = Len(file)
          /\ \A p \in Phrases : CountPhrase(file', p) = CountPhrase(file, p)
          /\ \A i \in 1..Len(file) :
                file[i].phrase \notin WorkPhrases
                   => CountProm(file', file[i].phrase, PVal(file[i].prom))
                        = CountProm(file, file[i].phrase, PVal(file[i].prom))]_vars

\* A completed run that processed some records and left alone a record of
\* another phrase, which is in the saved file.
C35_Witness ==
    /\ pc = "done" /\ work # <<>>
    /\ \E i \in 1..Len(file) : file[i].phrase \notin WorkPhrases
    /\ \E i \in 1..Len(file) :
          file[i].phrase \in WorkPhrases /\ file[i].prom.method # "absent"

====
